---- MODULE Spec2Model ----
(***************************************************************************)
(* The message composer of the conversation view (ExpandingInput.tsx):     *)
(* autocomplete of an in-progress word against a suggestion dictionary and *)
(* insertion of the accepted candidate, wrapped according to its tags.     *)
(* The rendering of a finalized message (parseMessageContent) and the      *)
(* per-connection message options kept in localStorage (messageOptions.ts) *)
(* are modelled next to it, each with a specification of its own.          *)
(*                                                                         *)
(* Texts are sequences of one-character strings.  Offsets into a text are  *)
(* 0-based, as in the source (selectionStart, slice, substring).           *)
(***************************************************************************)
EXTENDS Integers, Sequences, FiniteSets, TLC

VARIABLES
    inputValue,           \* useState("") : the text of the composer
    filteredSuggestions,  \* useState<string[]>([])
    showSuggestions,      \* useState(false)
    selectedIndex,        \* useState(0), 0-based
    selectionStart,       \* textarea.selectionStart (DOM)
    selectionEnd,         \* textarea.selectionEnd (DOM)
    autoCompleteList,     \* prop: the suggestion dictionary (may be absent)
    disabled,             \* prop
    timeouts,             \* pending setTimeout callbacks: their newPos, in order
    elapsed,              \* events handled while the oldest callback is pending
    lastOp                \* the operation that ran last, with its local values

vars == <<inputValue, filteredSuggestions, showSuggestions, selectedIndex,
          selectionStart, selectionEnd, autoCompleteList, disabled, timeouts,
          elapsed, lastOp>>

VARIABLES
    content,              \* parseMessageContent: its argument text
    parts,                \* parseMessageContent: const parts
    lastIndex,            \* parseMessageContent: let lastIndex
    parsePc               \* "idle", "loop" (in the while loop) or "done"

parseVars == <<content, parts, lastIndex, parsePc>>

VARIABLES
    localStorage,         \* the items "message_options" and MIGRATION_KEY_V1
    DEFAULT_OPTIONS,      \* the record imported from "@/api"
    lastCall              \* the storage function that ran last, its
                          \* arguments and what it returned

storageVars == <<localStorage, DEFAULT_OPTIONS, lastCall>>

VARIABLES
    backend,              \* the conversations the backend holds, in list order
    flatData,             \* query cache of ["CONVERSATIONS"]
    infiniteData,         \* query cache of ["CONVERSATIONS", "infinite"]
    invalidated,          \* the queries invalidated and not yet refetched
    deleting,             \* ids of the delete requests in flight
    lastEvent             \* the step of the conversation hooks that ran last

conversationVars == <<backend, flatData, infiniteData, invalidated, deleting,
                      lastEvent>>

VARIABLES
    connection,           \* the connection as the backend holds it
    location,             \* the page shown: the editor, "/" or the previous one
    unsavedChanges,       \* useState of ConnectionEditor
    showCancelAlert,      \* whether the discard-confirmation dialog is open
    editFields,           \* the form's fields (the name)
    glossary,             \* the form's glossary rows
    pendingUpdate,        \* the payload of the updateConnection in flight
    lastEditorEvent       \* the handler of the editor that ran last

editorVars == <<connection, location, unsavedChanges, showCancelAlert,
                editFields, glossary, pendingUpdate, lastEditorEvent>>

VARIABLES
    options,                   \* editFields.options, the prop of SchemaEditor
    requests,                  \* the requests in flight, each with the
                               \* options of the render that started it
    loadingPossibleValuesMap,  \* useState of SchemaEditor
    loadingRelationshipsMap,   \* useState of SchemaEditor
    started,                   \* the number of requests started so far
    lastSchemaEvent            \* the step of SchemaEditor that ran last

schemaVars == <<options, requests, loadingPossibleValuesMap,
                loadingRelationshipsMap, started, lastSchemaEvent>>

\* what a step of one part leaves alone: the variables of the other parts
outsideComposer == <<parseVars, storageVars, conversationVars, editorVars,
                     schemaVars>>
outsideParse == <<vars, storageVars, conversationVars, editorVars,
                  schemaVars>>
outsideStorage == <<vars, parseVars, conversationVars, editorVars,
                    schemaVars>>
outsideConversations == <<vars, parseVars, storageVars, editorVars,
                          schemaVars>>
outsideEditor == <<vars, parseVars, storageVars, conversationVars,
                   schemaVars>>
outsideSchema == <<vars, parseVars, storageVars, conversationVars,
                   editorVars>>

----------------------------------------------------------------------------
(* Bounds of the model *)

\* longest text an edit may leave, besides the example texts
MaxLen == 3
\* most events the browser handles before it runs a callback that is due
MaxEventsBeforeTimeout == 1

----------------------------------------------------------------------------
(* Characters and strings *)

LowerLetters == {"a","b","c","d","e","f","g","h","i","j","k","l","m",
                 "n","o","p","q","r","s","t","u","v","w","x","y","z"}
UpperLetters == {"A","B","C","D","E","F","G","H","I","J","K","L","M",
                 "N","O","P","Q","R","S","T","U","V","W","X","Y","Z"}
Digits == {"0","1","2","3","4","5","6","7","8","9"}

\* \w of a JavaScript regular expression without the u flag
IsWordChar(c) == c \in LowerLetters \cup UpperLetters \cup Digits \cup {"_"}

LowerOf == [c \in UpperLetters |->
    CASE c = "A" -> "a" [] c = "B" -> "b" [] c = "C" -> "c" [] c = "D" -> "d"
      [] c = "E" -> "e" [] c = "F" -> "f" [] c = "G" -> "g" [] c = "H" -> "h"
      [] c = "I" -> "i" [] c = "J" -> "j" [] c = "K" -> "k" [] c = "L" -> "l"
      [] c = "M" -> "m" [] c = "N" -> "n" [] c = "O" -> "o" [] c = "P" -> "p"
      [] c = "Q" -> "q" [] c = "R" -> "r" [] c = "S" -> "s" [] c = "T" -> "t"
      [] c = "U" -> "u" [] c = "V" -> "v" [] c = "W" -> "w" [] c = "X" -> "x"
      [] c = "Y" -> "y" [] c = "Z" -> "z"]

\* String.prototype.toLowerCase on the characters of the model
toLowerCase(s) ==
    [i \in 1..Len(s) |-> IF s[i] \in UpperLetters THEN LowerOf[s[i]] ELSE s[i]]

\* String.prototype.slice(from, to) / substring(from, to), 0 <= from <= to <= length
slice(s, from, to) == SubSeq(s, from + 1, to)

\* String.prototype.substring(from)
substring(s, from) == SubSeq(s, from + 1, Len(s))

\* String.prototype.includes(q)
includes(s, q) ==
    \E i \in 0..(Len(s) - Len(q)) : slice(s, i, i + Len(q)) = q

\* the set of the elements of a sequence
Elements(seq) == {seq[i] : i \in 1..Len(seq)}

\* the value of a failed String.prototype.match
NoMatch == <<>>

\* text.match(/(\w{3,})$/)[1], or NoMatch: the regular expression engine
\* tries the start offsets from the left and takes the first at which three
\* or more word characters reach the end of the text
MatchWordSuffixFrom(text, i) ==
    \A j \in (i + 1)..Len(text) : IsWordChar(text[j])

\* as MatchWordSuffix, with the quantifier {2,} in place of {3,}
MatchWordSuffixTwo(text) ==
    LET starts == {i \in 0..(Len(text) - 2) : MatchWordSuffixFrom(text, i)}
    IN  IF starts = {} THEN NoMatch
        ELSE LET first == CHOOSE i \in starts : \A k \in starts : i <= k
             IN  substring(text, first)

MatchWordSuffix(text) ==
    LET starts == {i \in 0..(Len(text) - 3) : MatchWordSuffixFrom(text, i)}
    IN  IF starts = {} THEN NoMatch
        ELSE LET first == CHOOSE i \in starts : \A k \in starts : i <= k
             IN  substring(text, first)

----------------------------------------------------------------------------
(* The suggestion dictionary: an object from key to an array of tags, or  *)
(* absent (null / undefined).  entries lists the own keys in the order in *)
(* which Object.keys yields them.                                         *)

Absent == [present |-> FALSE, entries |-> <<>>]

Dict(entries) == [present |-> TRUE, entries |-> entries]

Entry(key, tags) == [key |-> key, tags |-> tags]

\* Object.keys(autoCompleteList || {})
ObjectKeys(d) ==
    IF d.present THEN [i \in 1..Len(d.entries) |-> d.entries[i].key] ELSE <<>>

HasKey(d, key) == \E i \in 1..Len(d.entries) : d.entries[i].key = key

\* autoCompleteList[suggestion] of a present dictionary; undefined is
\* rendered as the record with defined = FALSE
Lookup(d, key) ==
    IF HasKey(d, key)
    THEN [defined |-> TRUE,
          tags |-> (CHOOSE e \in {d.entries[i] : i \in 1..Len(d.entries)} :
                        e.key = key).tags]
    ELSE [defined |-> FALSE, tags |-> {}]

\* tags?.includes(tag)
TagsInclude(t, tag) == t.defined /\ tag \in t.tags

----------------------------------------------------------------------------
(* Inputs of the model *)

\* the characters the user types: a word character (upper case, where the
\* keys of the dictionaries are of mixed case) and one that is none
Alphabet == {"B", " "}

\* "show cus", "what is rev" and "B BBBB", the texts the user pastes
ShowCus == <<"s","h","o","w"," ","c","u","s">>
WhatIsRev == <<"w","h","a","t"," ","i","s"," ","r","e","v">>
LongWord == <<"B"," ","B","B","B","B">>
ExampleTexts == {ShowCus, WhatIsRev, LongWord}

\* the change events the browser can deliver for a text and its selection,
\* as <<value, selectionStart>> after the edit: a typed character or a
\* pasted text replaces the selection, Backspace deletes the selection or
\* the character before the caret
ChangeEvents(text, start, end) ==
    LET before == slice(text, 0, start)
        after == substring(text, end)
        typed == {<<before \o <<c>> \o after, start + 1>> : c \in Alphabet}
        pasted == {<<before \o t \o after, start + Len(t)>> : t \in ExampleTexts}
        deleted == IF start < end THEN {<<before \o after, start>>}
                   ELSE IF start > 0
                   THEN {<<slice(text, 0, start - 1) \o after, start - 1>>}
                   ELSE {}
    IN  {e \in typed \cup pasted \cup deleted :
            Len(e[1]) <= MaxLen \/ e[1] \in ExampleTexts}

CustomerId == <<"c","u","s","t","o","m","e","r","_","i","d">>
Revenue == <<"r","e","v","e","n","u","e">>

\* the dictionaries the parent passes; a key's tags are an array of strings
DictOne ==
    Dict(<<Entry(<<"b","B","b">>, {"uniqueKey"}),
           Entry(<<"B","B","B","B">>, {"glossary"}),
           Entry(<<"x","b","b","B">>, {"glossary", "uniqueKey"}),
           Entry(<<"b","a","b">>, {"column"}),
           Entry(CustomerId, {"uniqueKey"}),
           Entry(Revenue, {"glossary"})>>)

DictTwo ==
    Dict(<<Entry(<<"B","B","B","B">>, {}),
           Entry(<<"b","B","b">>, {"glossary"})>>)

AutoCompleteLists == {DictOne, DictTwo, Absent}

----------------------------------------------------------------------------
(* handleChange *)

\* as FilterSuggestions, with startsWith in place of includes
FilterSuggestionsPrefix(suggestions, query) ==
    SelectSeq(suggestions,
              LAMBDA s : /\ Len(query) <= Len(s)
                         /\ slice(toLowerCase(s), 0, Len(query)) = query)

\* as FilterSuggestions, without the toLowerCase of the key
FilterSuggestionsCaseSensitive(suggestions, query) ==
    SelectSeq(suggestions, LAMBDA s : includes(s, query))

\* suggestions.filter((s) => s.toLowerCase().includes(query))
FilterSuggestions(suggestions, query) ==
    SelectSeq(suggestions, LAMBDA s : includes(toLowerCase(s), query))

\* the record of the operation that ran last: its name, a local value of it
\* (the match of a text change, the candidate of an acceptance, the text of
\* a submit, the previous index of an arrow key) and whether it threw
Op(op, arg) == [op |-> op, arg |-> arg, threw |-> FALSE]

Threw(op, arg) == [op |-> op, arg |-> arg, threw |-> TRUE]

\* an event of the user or the parent is handled: a callback that is due
\* is not kept waiting for more than MaxEventsBeforeTimeout of them
Event ==
    /\ timeouts = <<>> \/ elapsed < MaxEventsBeforeTimeout
    /\ elapsed' = IF timeouts = <<>> THEN 0 ELSE elapsed + 1
    /\ UNCHANGED outsideComposer

\* as HandleChange, with setShowSuggestions(true) whatever the list holds
HandleChangeShowsEmpty(value, cursorPos) ==
    LET suggestions == ObjectKeys(autoCompleteList)
        textBeforeCursor == slice(value, 0, cursorPos)
        match == MatchWordSuffix(textBeforeCursor)
        filtered == SelectSeq(suggestions,
                        LAMBDA s : includes(toLowerCase(s), toLowerCase(match)))
    IN  /\ Event
        /\ inputValue' = value
        /\ selectionStart' = cursorPos
        /\ selectionEnd' = cursorPos
        /\ IF match # NoMatch
           THEN /\ filteredSuggestions' = filtered
                /\ showSuggestions' = TRUE
                /\ selectedIndex' = 0
           ELSE /\ showSuggestions' = FALSE
                /\ selectedIndex' = 0
                /\ UNCHANGED filteredSuggestions
        /\ lastOp' = Op("change", match)
        /\ UNCHANGED <<autoCompleteList, disabled, timeouts>>

HandleChange(value, cursorPos) ==
    LET suggestions == ObjectKeys(autoCompleteList)
        textBeforeCursor == slice(value, 0, cursorPos)
        match == MatchWordSuffix(textBeforeCursor)
        filtered == FilterSuggestions(suggestions, toLowerCase(match))
    IN  /\ Event
        /\ inputValue' = value
        /\ selectionStart' = cursorPos
        /\ selectionEnd' = cursorPos
        /\ IF match # NoMatch
           THEN /\ filteredSuggestions' = filtered
                /\ showSuggestions' = (Len(filtered) > 0)
                /\ selectedIndex' = 0
           ELSE /\ showSuggestions' = FALSE
                /\ selectedIndex' = 0
                /\ UNCHANGED filteredSuggestions
        /\ lastOp' = Op("change", match)
        /\ UNCHANGED <<autoCompleteList, disabled, timeouts>>

----------------------------------------------------------------------------
(* handleSubmit *)

\* as HandleSubmit, without setShowSuggestions(false)
HandleSubmitKeepsList(op) ==
    /\ Event
    /\ IF disabled \/ Len(inputValue) = 0
       THEN /\ lastOp' = Op(op, <<>>)
            /\ UNCHANGED <<inputValue, filteredSuggestions, showSuggestions,
                           selectedIndex, selectionStart, selectionEnd,
                           autoCompleteList, disabled, timeouts>>
       ELSE /\ inputValue' = <<>>
            /\ selectionStart' = 0
            /\ selectionEnd' = 0
            /\ lastOp' = Op(op, inputValue)
            /\ UNCHANGED <<filteredSuggestions, showSuggestions,
                           selectedIndex, autoCompleteList, disabled,
                           timeouts>>

\* as HandleSubmit, without the test of disabled
HandleSubmitIgnoresDisabled(op) ==
    /\ Event
    /\ IF Len(inputValue) = 0
       THEN /\ lastOp' = Op(op, <<>>)
            /\ UNCHANGED <<inputValue, filteredSuggestions, showSuggestions,
                           selectedIndex, selectionStart, selectionEnd,
                           autoCompleteList, disabled, timeouts>>
       ELSE /\ inputValue' = <<>>
            /\ showSuggestions' = FALSE
            /\ selectionStart' = 0
            /\ selectionEnd' = 0
            /\ lastOp' = Op(op, inputValue)
            /\ UNCHANGED <<filteredSuggestions, selectedIndex,
                           autoCompleteList, disabled, timeouts>>

HandleSubmit(op) ==
    /\ Event
    /\ IF disabled \/ Len(inputValue) = 0
       THEN /\ lastOp' = Op(op, <<>>)
            /\ UNCHANGED <<inputValue, filteredSuggestions, showSuggestions,
                           selectedIndex, selectionStart, selectionEnd,
                           autoCompleteList, disabled, timeouts>>
       ELSE /\ inputValue' = <<>>
            /\ showSuggestions' = FALSE
            \* the textarea is controlled: its value is rewritten, the
            \* caret of the emptied text is at 0
            /\ selectionStart' = 0
            /\ selectionEnd' = 0
            /\ lastOp' = Op(op, inputValue)
            /\ UNCHANGED <<filteredSuggestions, selectedIndex,
                           autoCompleteList, disabled, timeouts>>

----------------------------------------------------------------------------
(* insertSuggestionAtCaret *)

\* the forwarded ref holds the mounted textarea
TextareaMounted == TRUE

\* as ReplaceStart, without the step back over the in-progress word
ReplaceStartAtCaret(value, start) == start

ReplaceStart(value, start) ==
    LET textBefore == slice(value, 0, start)
        match == MatchWordSuffix(textBefore)
    IN  IF match # NoMatch THEN start - Len(match) ELSE start

\* as WrapSuggestion, with the glossary test first
WrapSuggestionGlossaryFirst(suggestion, tags) ==
    IF TagsInclude(tags, "glossary") THEN <<"<">> \o suggestion \o <<">">>
    ELSE IF TagsInclude(tags, "uniqueKey") THEN <<"[">> \o suggestion \o <<"]">>
    ELSE suggestion

WrapSuggestion(suggestion, tags) ==
    IF TagsInclude(tags, "uniqueKey") THEN <<"[">> \o suggestion \o <<"]">>
    ELSE IF TagsInclude(tags, "glossary") THEN <<"<">> \o suggestion \o <<">">>
    ELSE suggestion

NewValue(value, replaceStart, end, wrappedSuggestion) ==
    slice(value, 0, replaceStart) \o wrappedSuggestion \o <<" ">>
        \o substring(value, end)

\* as NewPos, without the + 1 for the space
NewPosBeforeSpace(replaceStart, wrappedSuggestion) ==
    replaceStart + Len(wrappedSuggestion)

NewPos(replaceStart, wrappedSuggestion) ==
    replaceStart + Len(wrappedSuggestion) + 1

InsertSuggestionAtCaret(op, suggestion) ==
    /\ Event
    /\ IF ~TextareaMounted
       THEN /\ lastOp' = Op("unmounted", <<>>)
            /\ UNCHANGED <<inputValue, filteredSuggestions, showSuggestions,
                           selectedIndex, selectionStart, selectionEnd,
                           autoCompleteList, disabled, timeouts>>
       ELSE IF ~autoCompleteList.present
       THEN \* autoCompleteList[suggestion] of null or undefined: a
            \* TypeError is thrown before any state is set
            /\ lastOp' = Threw(op, suggestion)
            /\ UNCHANGED <<inputValue, filteredSuggestions, showSuggestions,
                           selectedIndex, selectionStart, selectionEnd,
                           autoCompleteList, disabled, timeouts>>
       ELSE LET replaceStart == ReplaceStart(inputValue, selectionStart)
                tags == Lookup(autoCompleteList, suggestion)
                wrappedSuggestion == WrapSuggestion(suggestion, tags)
                newValue == NewValue(inputValue, replaceStart, selectionEnd,
                                     wrappedSuggestion)
            IN  /\ inputValue' = newValue
                /\ showSuggestions' = FALSE
                /\ selectedIndex' = 0
                /\ timeouts' = Append(timeouts,
                                      NewPos(replaceStart, wrappedSuggestion))
                \* the textarea is controlled: when its value is rewritten
                \* the browser puts the caret at the end of the new text
                /\ IF newValue = inputValue
                   THEN UNCHANGED <<selectionStart, selectionEnd>>
                   ELSE /\ selectionStart' = Len(newValue)
                        /\ selectionEnd' = Len(newValue)
                /\ lastOp' = Op(op, suggestion)
                /\ UNCHANGED <<filteredSuggestions, autoCompleteList,
                               disabled>>

\* the callback of setTimeout(..., 0): setSelectionRange clamps to the text
RunTimeout ==
    /\ timeouts # <<>>
    /\ LET newPos == Head(timeouts)
           pos == IF newPos > Len(inputValue) THEN Len(inputValue) ELSE newPos
       IN  /\ selectionStart' = pos
           /\ selectionEnd' = pos
    /\ timeouts' = Tail(timeouts)
    /\ elapsed' = 0
    /\ lastOp' = Op("timeout", <<>>)
    /\ UNCHANGED <<inputValue, filteredSuggestions, showSuggestions,
                   selectedIndex, autoCompleteList, disabled>>
    /\ UNCHANGED outsideComposer

----------------------------------------------------------------------------
(* handleKeyPress *)

SuggestionsActive == showSuggestions /\ Len(filteredSuggestions) > 0

\* as KeyArrowDown, without the test against the last index
KeyArrowDownUnclamped ==
    /\ showSuggestions /\ Len(filteredSuggestions) > 0
    /\ Event
    /\ selectedIndex' = selectedIndex + 1
    /\ lastOp' = Op("ArrowDown", <<selectedIndex>>)
    /\ UNCHANGED <<inputValue, filteredSuggestions, showSuggestions,
                   selectionStart, selectionEnd, autoCompleteList, disabled,
                   timeouts>>

KeyArrowDown ==
    /\ SuggestionsActive
    /\ Event
    /\ selectedIndex' = IF selectedIndex < Len(filteredSuggestions) - 1
                        THEN selectedIndex + 1 ELSE selectedIndex
    /\ lastOp' = Op("ArrowDown", <<selectedIndex>>)
    /\ UNCHANGED <<inputValue, filteredSuggestions, showSuggestions,
                   selectionStart, selectionEnd, autoCompleteList, disabled,
                   timeouts>>

\* as KeyArrowUp, wrapping from the first index to the last
KeyArrowUpWraps ==
    /\ showSuggestions /\ Len(filteredSuggestions) > 0
    /\ Event
    /\ selectedIndex' = IF selectedIndex > 0 THEN selectedIndex - 1
                        ELSE Len(filteredSuggestions) - 1
    /\ lastOp' = Op("ArrowUp", <<selectedIndex>>)
    /\ UNCHANGED <<inputValue, filteredSuggestions, showSuggestions,
                   selectionStart, selectionEnd, autoCompleteList, disabled,
                   timeouts>>

KeyArrowUp ==
    /\ SuggestionsActive
    /\ Event
    /\ selectedIndex' = IF selectedIndex > 0 THEN selectedIndex - 1
                        ELSE selectedIndex
    /\ lastOp' = Op("ArrowUp", <<selectedIndex>>)
    /\ UNCHANGED <<inputValue, filteredSuggestions, showSuggestions,
                   selectionStart, selectionEnd, autoCompleteList, disabled,
                   timeouts>>

\* as KeyTab, accepting the first candidate whatever is highlighted
KeyTabFirst ==
    /\ showSuggestions /\ Len(filteredSuggestions) > 0
    /\ InsertSuggestionAtCaret("Tab", filteredSuggestions[1])

KeyTab ==
    /\ SuggestionsActive
    /\ InsertSuggestionAtCaret("Tab", filteredSuggestions[selectedIndex + 1])

\* as KeyEscape, clearing the text as well
KeyEscapeClearsText ==
    /\ showSuggestions /\ Len(filteredSuggestions) > 0
    /\ Event
    /\ showSuggestions' = FALSE
    /\ inputValue' = <<>>
    /\ selectionStart' = 0
    /\ selectionEnd' = 0
    /\ lastOp' = Op("Escape", <<>>)
    /\ UNCHANGED <<filteredSuggestions, selectedIndex, autoCompleteList,
                   disabled, timeouts>>

KeyEscape ==
    /\ SuggestionsActive
    /\ Event
    /\ showSuggestions' = FALSE
    /\ lastOp' = Op("Escape", <<>>)
    /\ UNCHANGED <<inputValue, filteredSuggestions, selectedIndex,
                   selectionStart, selectionEnd, autoCompleteList, disabled,
                   timeouts>>

\* Enter without Shift, whether or not suggestions are shown
\* as KeyEnter, with Enter accepting the highlighted candidate while the
\* list is shown
KeyEnterAccepts ==
    IF showSuggestions /\ Len(filteredSuggestions) > 0
    THEN InsertSuggestionAtCaret("Enter",
                                 filteredSuggestions[selectedIndex + 1])
    ELSE HandleSubmit("Enter")

KeyEnter == HandleSubmit("Enter")

\* Enter with Shift: no branch of handleKeyPress applies (the navigation
\* block tests the arrows, Tab and Escape, the submit test needs !shiftKey),
\* so the handler changes nothing and the default is not prevented; the
\* line break the browser then inserts arrives as a change event
KeyShiftEnter ==
    /\ Event
    /\ lastOp' = Op("ShiftEnter", <<>>)
    /\ UNCHANGED <<inputValue, filteredSuggestions, showSuggestions,
                   selectedIndex, selectionStart, selectionEnd,
                   autoCompleteList, disabled, timeouts>>

----------------------------------------------------------------------------
(* the rendered suggestion list *)

\* as ClickSuggestion, leaving the list open after the insertion
ClickSuggestionKeepsList(index) ==
    /\ SuggestionsActive
    /\ index \in 0..(Len(filteredSuggestions) - 1)
    /\ autoCompleteList.present
    /\ Event
    /\ LET suggestion == filteredSuggestions[index + 1]
           replaceStart == ReplaceStart(inputValue, selectionStart)
           tags == Lookup(autoCompleteList, suggestion)
           wrappedSuggestion == WrapSuggestion(suggestion, tags)
           newValue == NewValue(inputValue, replaceStart, selectionEnd,
                                wrappedSuggestion)
       IN  /\ inputValue' = newValue
           /\ selectionStart' = Len(newValue)
           /\ selectionEnd' = Len(newValue)
           /\ timeouts' = Append(timeouts,
                                 NewPos(replaceStart, wrappedSuggestion))
           /\ lastOp' = Op("click", suggestion)
    /\ UNCHANGED <<filteredSuggestions, showSuggestions, selectedIndex,
                   autoCompleteList, disabled>>

ClickSuggestion(index) ==
    /\ SuggestionsActive
    /\ index \in 0..(Len(filteredSuggestions) - 1)
    /\ InsertSuggestionAtCaret("click", filteredSuggestions[index + 1])

HoverSuggestion(index) ==
    /\ SuggestionsActive
    /\ index \in 0..(Len(filteredSuggestions) - 1)
    /\ Event
    /\ selectedIndex' = index
    /\ lastOp' = Op("hover", <<index>>)
    /\ UNCHANGED <<inputValue, filteredSuggestions, showSuggestions,
                   selectionStart, selectionEnd, autoCompleteList, disabled,
                   timeouts>>

----------------------------------------------------------------------------
(* the environment: the parent's props and the caret of the textarea *)

SetAutoCompleteList(d) ==
    /\ d # autoCompleteList
    /\ Event
    /\ autoCompleteList' = d
    /\ lastOp' = Op("env", <<>>)
    /\ UNCHANGED <<inputValue, filteredSuggestions, showSuggestions,
                   selectedIndex, selectionStart, selectionEnd, disabled,
                   timeouts>>

SetDisabled ==
    /\ Event
    /\ disabled' = ~disabled
    /\ lastOp' = Op("env", <<>>)
    /\ UNCHANGED <<inputValue, filteredSuggestions, showSuggestions,
                   selectedIndex, selectionStart, selectionEnd,
                   autoCompleteList, timeouts>>

\* a key that handleKeyPress lets through (arrows, Home, End, select all)
\* or a click in the text: the browser moves the caret or selects the whole
\* text, and no handler of the composer runs
MoveCaret(start, end) ==
    /\ Len(inputValue) <= MaxLen \/ inputValue \in ExampleTexts
    /\ start = end \/ (start = 0 /\ end = Len(inputValue))
    /\ <<start, end>> # <<selectionStart, selectionEnd>>
    /\ Event
    /\ selectionStart' = start
    /\ selectionEnd' = end
    /\ lastOp' = Op("env", <<>>)
    /\ UNCHANGED <<inputValue, filteredSuggestions, showSuggestions,
                   selectedIndex, autoCompleteList, disabled, timeouts>>

----------------------------------------------------------------------------

\* no message is being rendered
ParseIdle ==
    /\ content = <<>>
    /\ parts = <<>>
    /\ lastIndex = 0
    /\ parsePc = "idle"

\* the message options are not in use
StorageIdle ==
    /\ localStorage = <<>>
    /\ DEFAULT_OPTIONS = <<>>
    /\ lastCall = <<>>

\* the conversation lists are not in use
ConversationsIdle ==
    /\ backend = <<>>
    /\ flatData = <<>>
    /\ infiniteData = <<>>
    /\ invalidated = {}
    /\ deleting = {}
    /\ lastEvent = <<>>

\* no connection is being edited
EditorIdle ==
    /\ connection = <<>>
    /\ location = "home"
    /\ unsavedChanges = FALSE
    /\ showCancelAlert = FALSE
    /\ editFields = <<>>
    /\ glossary = <<>>
    /\ pendingUpdate = <<>>
    /\ lastEditorEvent = <<>>

\* no schema is being edited
SchemaIdle ==
    /\ options = <<>>
    /\ requests = {}
    /\ loadingPossibleValuesMap = <<>>
    /\ loadingRelationshipsMap = <<>>
    /\ started = 0
    /\ lastSchemaEvent = <<>>

Init ==
    /\ ParseIdle
    /\ StorageIdle
    /\ ConversationsIdle
    /\ EditorIdle
    /\ SchemaIdle
    /\ inputValue = <<>>
    /\ filteredSuggestions = <<>>
    /\ showSuggestions = FALSE
    /\ selectedIndex = 0
    /\ selectionStart = 0
    /\ selectionEnd = 0
    /\ autoCompleteList \in AutoCompleteLists
    /\ disabled \in BOOLEAN
    /\ timeouts = <<>>
    /\ elapsed = 0
    /\ lastOp = Op("init", <<>>)

Next ==
    \/ \E e \in ChangeEvents(inputValue, selectionStart, selectionEnd) :
           HandleChange(e[1], e[2])
    \/ KeyArrowDown
    \/ KeyArrowUp
    \/ KeyTab
    \/ KeyEscape
    \/ KeyEnter
    \/ KeyShiftEnter
    \/ \E index \in 0..(Len(filteredSuggestions) - 1) : ClickSuggestion(index)
    \/ \E index \in 0..(Len(filteredSuggestions) - 1) : HoverSuggestion(index)
    \/ RunTimeout
    \/ \E d \in AutoCompleteLists : SetAutoCompleteList(d)
    \/ SetDisabled
    \/ \E start \in 0..Len(inputValue) : \E end \in 0..Len(inputValue) :
           MoveCaret(start, end)

Spec == Init /\ [][Next]_vars

\* the composer at rest, for the specifications of the other parts
ComposerIdle ==
    /\ inputValue = <<>>
    /\ filteredSuggestions = <<>>
    /\ showSuggestions = FALSE
    /\ selectedIndex = 0
    /\ selectionStart = 0
    /\ selectionEnd = 0
    /\ autoCompleteList = Absent
    /\ disabled = FALSE
    /\ timeouts = <<>>
    /\ elapsed = 0
    /\ lastOp = Op("init", <<>>)

----------------------------------------------------------------------------
(* Rendering a finalized message: parseMessageContent of the Message       *)
(* component.  A part is a plain string or a chip: [kind, text].           *)

\* longest message text, besides the example
MaxContentLen == 6

ContentAlphabet == {"a", "<", ">", "[", "]"}

RefundExample ==
    <<"r","e","f","u","n","d"," ","f","o","r"," ","<",
      "c","u","s","t","o","m","e","r",">"," ","a","n",
      "d"," ","[","o","r","d","e","r","_","i","d","]">>

Contents ==
    UNION {[1..n -> ContentAlphabet] : n \in 0..MaxContentLen}
        \cup {RefundExample}

MinOf(S) == CHOOSE x \in S : \A y \in S : x <= y
MaxOf(S) == CHOOSE x \in S : \A y \in S : x >= y

\* as BracketMatchEnd for the pattern  open (.+) close : the group runs to
\* the last closing bracket
BracketMatchEndLast(text, i, open, close) ==
    IF i >= Len(text) \/ text[i + 1] # open THEN -1
    ELSE LET closes == {j \in (i + 2)..Len(text) : text[j] = close}
         IN  IF closes = {} THEN -1
             ELSE IF MaxOf(closes) >= i + 3 THEN MaxOf(closes) ELSE -1

\* one alternative of the regular expression,  open ([^close]+) close ,
\* tried at offset i: the offset after the match, or -1.  The group takes
\* every character up to the first closing bracket and must not be empty;
\* giving characters back cannot help, as the closing bracket has to follow.
BracketMatchEnd(text, i, open, close) ==
    IF i >= Len(text) \/ text[i + 1] # open THEN -1
    ELSE LET closes == {j \in (i + 2)..Len(text) : text[j] = close}
         IN  IF closes = {} THEN -1
             ELSE IF MinOf(closes) >= i + 3 THEN MinOf(closes) ELSE -1

NoExec == [found |-> FALSE, index |-> -1, end |-> -1, kind |-> "", group |-> <<>>]

\* /<([^>]+)>|\[([^\]]+)\]/ tried at offset i, the first alternative first
RegexMatchAt(text, i) ==
    LET g == BracketMatchEnd(text, i, "<", ">")
        u == BracketMatchEnd(text, i, "[", "]")
    IN  IF g # -1
        THEN [found |-> TRUE, index |-> i, end |-> g, kind |-> "glossary",
              group |-> slice(text, i + 1, g - 1)]
        ELSE IF u # -1
        THEN [found |-> TRUE, index |-> i, end |-> u, kind |-> "uniqueKey",
              group |-> slice(text, i + 1, u - 1)]
        ELSE NoExec

\* regex.exec(text) with regex.lastIndex = from (flag g): the match at the
\* leftmost offset from there on, or null
RegexExec(text, from) ==
    LET starts == {i \in from..(Len(text) - 1) : RegexMatchAt(text, i).found}
    IN  IF starts = {} THEN NoExec ELSE RegexMatchAt(text, MinOf(starts))

Plain(t) == [kind |-> "plain", text |-> t]
Chip(kind, t) == [kind |-> kind, text |-> t]

\* if (s) parts.push(s)
PushIfNonEmpty(ps, t) == IF t # <<>> THEN Append(ps, Plain(t)) ELSE ps

\* one iteration of the while loop
ParseMessageContentLoop ==
    /\ parsePc = "loop"
    /\ LET m == RegexExec(content, lastIndex)
           before == slice(content, lastIndex, m.index)
       IN  /\ m.found
           /\ parts' = Append(PushIfNonEmpty(parts, before),
                              Chip(m.kind, m.group))
           /\ lastIndex' = m.end
    /\ UNCHANGED <<content, parsePc>>
    /\ UNCHANGED outsideParse

\* exec returns null: the loop ends, the rest of the text is pushed and the
\* parts are returned
ParseMessageContentReturn ==
    /\ parsePc = "loop"
    /\ ~RegexExec(content, lastIndex).found
    /\ parts' = PushIfNonEmpty(parts, substring(content, lastIndex))
    /\ parsePc' = "done"
    /\ UNCHANGED <<content, lastIndex>>
    /\ UNCHANGED outsideParse

InitParse ==
    /\ EditorIdle
    /\ SchemaIdle
    /\ ComposerIdle
    /\ StorageIdle
    /\ ConversationsIdle
    /\ content \in Contents
    /\ parts = <<>>
    /\ lastIndex = 0
    /\ parsePc = "loop"

NextParse ==
    \/ ParseMessageContentLoop
    \/ ParseMessageContentReturn

SpecParse == InitParse /\ [][NextParse]_parseVars

----------------------------------------------------------------------------
(* The message options of each connection, kept in localStorage            *)
(* (messageOptions.ts).  An options record is a function from field names  *)
(* to booleans, the stored map a function from connection ids to records.  *)
(* JSON.stringify followed by JSON.parse gives such a map back unchanged,  *)
(* so an item holds the map itself.  No code writes a null entry into the  *)
(* map, so the test of line 30 is always passed.                           *)

Connections == {"conn1", "conn2"}
\* connection_id of a caller that has no connection
Undefined == "undefined"

Fields == {"secure_data", "debug"}
\* IMessageOptions
OptionsRecords == [Fields -> BOOLEAN]
\* Partial<IMessageOptions>
PartialOptions == UNION {[F -> BOOLEAN] : F \in SUBSET Fields}
\* IStorageMessageOptions
OptionsMaps == UNION {[D -> OptionsRecords] : D \in SUBSET Connections}

MIGRATION_KEY_V1 == "message_options_migration_v1"
MESSAGE_OPTIONS_KEY == "message_options"

\* an item of the storage; getItem of an item that is not set gives null
Item(v) == [present |-> TRUE, value |-> v]
NoItem(empty) == [present |-> FALSE, value |-> empty]

getItem(store, key) == store[key]
setItem(store, key, v) == [store EXCEPT ![key] = Item(v)]

\* JSON.parse(localStorage.getItem("message_options") ?? "{}")
ParseAllMessageOptions(store) ==
    LET item == getItem(store, MESSAGE_OPTIONS_KEY)
    IN  IF item.present THEN item.value ELSE <<>>

\* { ...a, ...b }
Spread(a, b) ==
    [f \in DOMAIN a \cup DOMAIN b |-> IF f \in DOMAIN b THEN b[f] ELSE a[f]]

\* the forEach of lines 29-33, leaving the flag of each entry as stored
ForceSecureDataKept(all) == all

\* the forEach of lines 29-33: secure_data = false in every entry
ForceSecureData(all) ==
    [key \in DOMAIN all |-> Spread(all[key], [secure_data |-> FALSE])]

\* a call as lastCall keeps it; migrated: the call ran the block of lines
\* 24-40
Call(fn, connection_id, changes, returned, migrated) ==
    [fn |-> fn, connection_id |-> connection_id, changes |-> changes,
     returned |-> returned, migrated |-> migrated]

\* as StoredOrDefault, with the flag of the default record forced as well
StoredOrDefaultForced(store, connection_id, default) ==
    LET allMessageOptions ==
            IF store[MESSAGE_OPTIONS_KEY].present
            THEN store[MESSAGE_OPTIONS_KEY].value ELSE <<>>
    IN  IF connection_id \in DOMAIN allMessageOptions
        THEN allMessageOptions[connection_id]
        ELSE [f \in DOMAIN default |->
                 IF f = "secure_data" THEN FALSE ELSE default[f]]

\* lines 42-49: the entry of the connection, else the default record
StoredOrDefault(store, connection_id, default) ==
    LET allMessageOptions == ParseAllMessageOptions(store)
    IN  IF connection_id \in DOMAIN allMessageOptions
        THEN allMessageOptions[connection_id]
        ELSE default

\* as ReadMessageOptionsFromLocalStorage, without the test of the marker
ReadMessageOptionsAlwaysMigrating(connection_id) ==
    /\ IF connection_id = Undefined
       THEN /\ lastCall' = Call("read", connection_id, <<>>, DEFAULT_OPTIONS,
                                FALSE)
            /\ UNCHANGED localStorage
       ELSE LET parsed ==
                    IF localStorage[MESSAGE_OPTIONS_KEY].present
                    THEN localStorage[MESSAGE_OPTIONS_KEY].value ELSE <<>>
                allMessageOptions ==
                    [key \in DOMAIN parsed |->
                        [f \in Fields |->
                            IF f = "secure_data" THEN FALSE
                            ELSE parsed[key][f]]]
            IN  /\ localStorage' =
                       [localStorage EXCEPT
                           ![MESSAGE_OPTIONS_KEY] = Item(allMessageOptions),
                           ![MIGRATION_KEY_V1] = Item("true")]
                /\ lastCall' =
                       Call("read", connection_id, <<>>,
                            IF connection_id \in DOMAIN allMessageOptions
                            THEN allMessageOptions[connection_id]
                            ELSE DEFAULT_OPTIONS,
                            TRUE)
    /\ UNCHANGED DEFAULT_OPTIONS
    /\ UNCHANGED outsideStorage

ReadMessageOptionsFromLocalStorage(connection_id) ==
    /\ IF connection_id = Undefined
       THEN /\ lastCall' = Call("read", connection_id, <<>>, DEFAULT_OPTIONS,
                                FALSE)
            /\ UNCHANGED localStorage
       ELSE IF ~getItem(localStorage, MIGRATION_KEY_V1).present
       THEN LET allMessageOptions ==
                    ForceSecureData(ParseAllMessageOptions(localStorage))
                migrated ==
                    setItem(setItem(localStorage, MESSAGE_OPTIONS_KEY,
                                    allMessageOptions),
                            MIGRATION_KEY_V1, "true")
            IN  /\ localStorage' = migrated
                /\ lastCall' =
                       Call("read", connection_id, <<>>,
                            IF connection_id \in DOMAIN allMessageOptions
                            THEN allMessageOptions[connection_id]
                            ELSE StoredOrDefault(migrated, connection_id,
                                                 DEFAULT_OPTIONS),
                            TRUE)
       ELSE /\ lastCall' =
                   Call("read", connection_id, <<>>,
                        StoredOrDefault(localStorage, connection_id,
                                        DEFAULT_OPTIONS),
                        FALSE)
            /\ UNCHANGED localStorage
    /\ UNCHANGED DEFAULT_OPTIONS
    /\ UNCHANGED outsideStorage

\* as SaveMessageOptionsToLocalStorage, storing the changes alone
SaveMessageOptionsReplacing(connection_id, changes) ==
    /\ LET allMessageOptions == ParseAllMessageOptions(localStorage)
           all == [key \in DOMAIN allMessageOptions \cup {connection_id} |->
                      IF key = connection_id
                      THEN Spread(DEFAULT_OPTIONS, changes)
                      ELSE allMessageOptions[key]]
       IN  localStorage' = setItem(localStorage, MESSAGE_OPTIONS_KEY, all)
    /\ lastCall' = Call("save", connection_id, changes, <<>>, FALSE)
    /\ UNCHANGED DEFAULT_OPTIONS
    /\ UNCHANGED outsideStorage

SaveMessageOptionsToLocalStorage(connection_id, changes) ==
    /\ LET allMessageOptions == ParseAllMessageOptions(localStorage)
           record == IF connection_id \in DOMAIN allMessageOptions
                     THEN Spread(allMessageOptions[connection_id], changes)
                     ELSE Spread(DEFAULT_OPTIONS, changes)
           all == [key \in DOMAIN allMessageOptions \cup {connection_id} |->
                      IF key = connection_id THEN record
                      ELSE allMessageOptions[key]]
       IN  localStorage' = setItem(localStorage, MESSAGE_OPTIONS_KEY, all)
    /\ lastCall' = Call("save", connection_id, changes, <<>>, FALSE)
    /\ UNCHANGED DEFAULT_OPTIONS
    /\ UNCHANGED outsideStorage

\* the storage of a browser: nothing stored yet, the options of an earlier
\* version of the program (no marker), or options and the marker
InitStorage ==
    /\ EditorIdle
    /\ SchemaIdle
    /\ ComposerIdle
    /\ ParseIdle
    /\ ConversationsIdle
    /\ DEFAULT_OPTIONS \in OptionsRecords
    /\ \E marker \in {NoItem(""), Item("true")} :
       \E stored \in {NoItem(<<>>)} \cup {Item(m) : m \in OptionsMaps} :
           /\ marker.present => stored.present
           /\ localStorage =
                  [key \in {MESSAGE_OPTIONS_KEY, MIGRATION_KEY_V1} |->
                      IF key = MIGRATION_KEY_V1 THEN marker ELSE stored]
    /\ lastCall = Call("init", Undefined, <<>>, <<>>, FALSE)

NextStorage ==
    \/ \E connection_id \in Connections \cup {Undefined} :
           ReadMessageOptionsFromLocalStorage(connection_id)
    \/ \E connection_id \in Connections : \E changes \in PartialOptions :
           SaveMessageOptionsToLocalStorage(connection_id, changes)

SpecStorage == InitStorage /\ [][NextStorage]_storageVars

----------------------------------------------------------------------------
(* The conversation lists (messageOptions.ts): the flat query               *)
(* ["CONVERSATIONS"], the paginated query ["CONVERSATIONS", "infinite"] and *)
(* the delete mutation with its optimistic update.  A conversation is its   *)
(* id.  A fetch is one step: it reads the backend when its response is      *)
(* built.  A fetch that fails changes no data and leaves the query          *)
(* invalidated, so it is no step of the model.                              *)

\* most conversations on the backend
MaxConversations == 2
\* the page size passed as limit (14 by default)
Limit == 1

ConversationIds == 1..MaxConversations

\* the data of a query that has none yet (undefined)
NoQueryData == [defined |-> FALSE, data |-> <<>>]
QueryData(list) == [defined |-> TRUE, data |-> list]
NoInfiniteData == [defined |-> FALSE, pages |-> <<>>, pageParams |-> <<>>]
InfiniteData(pages, pageParams) ==
    [defined |-> TRUE, pages |-> pages, pageParams |-> pageParams]

ConversationEvent(op, id, arg) == [op |-> op, id |-> id, arg |-> arg]

IsDeleting(id) == id \in deleting

\* api.listConversations({ skip, limit }) of the backend
ListConversations(list, skip, limit) ==
    SubSeq(list, skip + 1,
           IF skip + limit < Len(list) THEN skip + limit ELSE Len(list))

\* list.filter((conversation) => conversation.id !== idToDelete)
FilterOut(list, idToDelete) == SelectSeq(list, LAMBDA id : id # idToDelete)

\* allPages.reduce((total, page) => total + page.length, 0)
RECURSIVE TotalFetched(_)
TotalFetched(allPages) ==
    IF allPages = <<>> THEN 0
    ELSE Len(Head(allPages)) + TotalFetched(Tail(allPages))

\* getNextPageParam returning null
NoNextPage == -1

\* as GetNextPageParam, with the offset counted in full pages
GetNextPageParamByPages(lastPage, allPages) ==
    IF Len(lastPage) < Limit THEN NoNextPage ELSE Len(allPages) * Limit

GetNextPageParam(lastPage, allPages) ==
    IF Len(lastPage) < Limit THEN NoNextPage ELSE TotalFetched(allPages)

\* hasNextPage of the paginated query
HasNextPage(data) ==
    /\ data.defined
    /\ data.pages # <<>>
    /\ GetNextPageParam(data.pages[Len(data.pages)], data.pages) # NoNextPage

\* the refetch of a paginated query: the first page again, then as many
\* further pages as the query held, each with the offset getNextPageParam
\* gives for the pages refetched so far, stopping when it gives none
RECURSIVE RefetchPages(_, _, _, _)
RefetchPages(list, count, pages, pageParams) ==
    IF Len(pages) >= count THEN InfiniteData(pages, pageParams)
    ELSE LET param == GetNextPageParam(pages[Len(pages)], pages)
         IN  IF param = NoNextPage THEN InfiniteData(pages, pageParams)
             ELSE RefetchPages(list, count,
                               Append(pages,
                                      ListConversations(list, param, Limit)),
                               Append(pageParams, param))

InFlat(id) == flatData.defined /\ id \in Elements(flatData.data)

InPages(id) ==
    /\ infiniteData.defined
    /\ \E i \in 1..Len(infiniteData.pages) :
           id \in Elements(infiniteData.pages[i])

\* a list of the application shows the conversation
Shown(id) == InFlat(id) \/ InPages(id)

\* as DeleteConversationOnMutate, taking the conversation out of the page
\* that shows it first only
DeleteConversationOnMutateFirstPage(idToDelete) ==
    /\ Shown(idToDelete)
    /\ ~IsDeleting(idToDelete)
    /\ infiniteData' =
           IF ~infiniteData.defined THEN infiniteData
           ELSE LET hit == {i \in 1..Len(infiniteData.pages) :
                               idToDelete \in Elements(infiniteData.pages[i])}
                IN  InfiniteData(
                        [i \in 1..Len(infiniteData.pages) |->
                            IF hit # {} /\ i = MinOf(hit)
                            THEN FilterOut(infiniteData.pages[i], idToDelete)
                            ELSE infiniteData.pages[i]],
                        infiniteData.pageParams)
    /\ flatData' =
           IF ~flatData.defined THEN QueryData(<<>>)
           ELSE QueryData(FilterOut(flatData.data, idToDelete))
    /\ deleting' = deleting \cup {idToDelete}
    /\ lastEvent' = ConversationEvent("onMutate", idToDelete, 0)
    /\ UNCHANGED <<backend, invalidated>>
    /\ UNCHANGED outsideConversations

\* mutate(id) of useDeleteConversation, for a conversation the lists show:
\* onMutate cancels the fetches in flight (none are, a fetch being one
\* step) and rewrites both caches, then the request is sent
DeleteConversationOnMutate(idToDelete) ==
    /\ Shown(idToDelete)
    /\ ~IsDeleting(idToDelete)
    /\ infiniteData' =
           IF ~infiniteData.defined THEN infiniteData
           ELSE InfiniteData(
                    [i \in 1..Len(infiniteData.pages) |->
                        FilterOut(infiniteData.pages[i], idToDelete)],
                    infiniteData.pageParams)
    /\ flatData' =
           IF ~flatData.defined THEN QueryData(<<>>)
           ELSE QueryData(FilterOut(flatData.data, idToDelete))
    /\ deleting' = deleting \cup {idToDelete}
    /\ lastEvent' = ConversationEvent("onMutate", idToDelete, 0)
    /\ UNCHANGED <<backend, invalidated>>
    /\ UNCHANGED outsideConversations

\* api.deleteConversation(id) resolves: the backend has deleted the
\* conversation; the mutation has no onSuccess and no onSettled
DeleteConversationSucceeds(id) ==
    /\ IsDeleting(id)
    /\ backend' = FilterOut(backend, id)
    /\ deleting' = deleting \ {id}
    /\ lastEvent' = ConversationEvent("deleted", id, 0)
    /\ UNCHANGED <<flatData, infiniteData, invalidated>>
    /\ UNCHANGED outsideConversations

\* the queries whose key starts with CONVERSATIONS_QUERY_KEY
ConversationQueries == {"flat", "infinite"}

\* as DeleteConversationOnError, without the invalidation
DeleteConversationOnErrorSilent(id) ==
    /\ IsDeleting(id)
    /\ deleting' = deleting \ {id}
    /\ lastEvent' = ConversationEvent("deleteError", id, 1)
    /\ UNCHANGED <<backend, flatData, infiniteData, invalidated>>
    /\ UNCHANGED outsideConversations

\* api.deleteConversation(id) rejects: onError raises the snackbar (arg: the
\* number of snackbars raised) and invalidates the conversation queries
DeleteConversationOnError(id) ==
    /\ IsDeleting(id)
    /\ deleting' = deleting \ {id}
    /\ invalidated' = ConversationQueries
    /\ lastEvent' = ConversationEvent("deleteError", id, 1)
    /\ UNCHANGED <<backend, flatData, infiniteData>>
    /\ UNCHANGED outsideConversations

\* the queryFn of useGetConversations: first load, refetch after an
\* invalidation, or refetch on focus
FetchConversations ==
    /\ flatData' = QueryData(backend)
    /\ invalidated' = invalidated \ {"flat"}
    /\ lastEvent' = ConversationEvent("fetchFlat", 0, 0)
    /\ UNCHANGED <<backend, infiniteData, deleting>>
    /\ UNCHANGED outsideConversations

\* the paginated query loads its first page (initialPageParam 0) or
\* refetches the pages it holds
FetchConversationsInfinite ==
    /\ infiniteData' =
           RefetchPages(backend,
                        IF infiniteData.defined THEN Len(infiniteData.pages)
                        ELSE 1,
                        <<ListConversations(backend, 0, Limit)>>, <<0>>)
    /\ invalidated' = invalidated \ {"infinite"}
    /\ lastEvent' = ConversationEvent("fetchInfinite", 0, 0)
    /\ UNCHANGED <<backend, flatData, deleting>>
    /\ UNCHANGED outsideConversations

\* fetchNextPage: the queryFn with pageParam = getNextPageParam(...), which
\* is recorded as arg
FetchNextPage ==
    /\ HasNextPage(infiniteData)
    /\ LET pages == infiniteData.pages
           pageParam == GetNextPageParam(pages[Len(pages)], pages)
       IN  /\ infiniteData' =
                  InfiniteData(
                      Append(pages,
                             ListConversations(backend, pageParam, Limit)),
                      Append(infiniteData.pageParams, pageParam))
           /\ lastEvent' = ConversationEvent("fetchNextPage", 0, pageParam)
    /\ UNCHANGED <<backend, flatData, invalidated, deleting>>
    /\ UNCHANGED outsideConversations

InitConversations ==
    /\ EditorIdle
    /\ SchemaIdle
    /\ ComposerIdle
    /\ ParseIdle
    /\ StorageIdle
    /\ backend \in {[i \in 1..n |-> i] : n \in 0..MaxConversations}
    /\ flatData = NoQueryData
    /\ infiniteData = NoInfiniteData
    /\ invalidated = {}
    /\ deleting = {}
    /\ lastEvent = ConversationEvent("init", 0, 0)

NextConversations ==
    \/ \E id \in ConversationIds : DeleteConversationOnMutate(id)
    \/ \E id \in ConversationIds : DeleteConversationSucceeds(id)
    \/ \E id \in ConversationIds : DeleteConversationOnError(id)
    \/ FetchConversations
    \/ FetchConversationsInfinite
    \/ FetchNextPage

SpecConversations ==
    InitConversations /\ [][NextConversations]_conversationVars

\* invalidateQueries refetches the invalidated queries, which are in use
FairConversations ==
    /\ WF_conversationVars(FetchConversations /\ "flat" \in invalidated)
    /\ WF_conversationVars(FetchConversationsInfinite
                             /\ "infinite" \in invalidated)

SpecConversationsFair == SpecConversations /\ FairConversations

----------------------------------------------------------------------------
(* ConnectionEditor and GlossaryEditor (part_001): the form that edits a   *)
(* connection, its unsaved-changes flag, the ways back and the discard     *)
(* dialog.  An object with string keys is the sequence of its entries in   *)
(* insertion order.                                                        *)

MaxGlossary == 2

ConnectionNames == {"a", "b"}
GlossaryKeys == {"key", "k"}
GlossaryValues == {""}

GlossaryItem(key, value) == [key |-> key, value |-> value]

\* no updateConnection in flight
NoUpdate == [pending |-> FALSE]

EditorEvent(op, arg) == [op |-> op, arg |-> arg]

\* lines 624-630, 678-688: the form as the effect on [connection] sets it
NewGlsry(glossaryData) ==
    [i \in 1..Len(glossaryData) |->
        GlossaryItem(glossaryData[i].key, glossaryData[i].value)]

\* lines 758-763: later rows overwrite earlier rows of the same key, a key
\* keeps the place of its first row
RECURSIVE ConvertToKeyValueObject(_)
ConvertToKeyValueObject(arrayList) ==
    IF arrayList = <<>>
    THEN <<>>
    ELSE LET acc == ConvertToKeyValueObject(
                        SubSeq(arrayList, 1, Len(arrayList) - 1))
             item == arrayList[Len(arrayList)]
         IN  IF \E i \in 1..Len(acc) : acc[i].key = item.key
             THEN [i \in 1..Len(acc) |->
                      IF acc[i].key = item.key THEN item ELSE acc[i]]
             ELSE Append(acc, item)

\* leaving the page unmounts the editor: the state of its hooks is gone
Unmount(to) ==
    /\ location' = to
    /\ unsavedChanges' = FALSE
    /\ showCancelAlert' = FALSE
    /\ editFields' = <<>>
    /\ glossary' = <<>>

\* mounting the editor of the connection: useState defaults and the effect
\* on [connection]
OpenEditor ==
    /\ location # "editor"
    /\ pendingUpdate = NoUpdate
    /\ location' = "editor"
    /\ unsavedChanges' = FALSE
    /\ showCancelAlert' = FALSE
    /\ editFields' = [name |-> connection.name]
    /\ glossary' = NewGlsry(connection.glossary)
    /\ lastEditorEvent' = EditorEvent("open", "")
    /\ UNCHANGED <<connection, pendingUpdate>>
    /\ UNCHANGED outsideEditor

\* lines 844-847: onChange of the name input
ChangeName(value) ==
    /\ location = "editor"
    /\ editFields' = [editFields EXCEPT !.name = value]
    /\ unsavedChanges' = TRUE
    /\ lastEditorEvent' = EditorEvent("changeName", "")
    /\ UNCHANGED <<connection, location, showCancelAlert, glossary,
                   pendingUpdate>>
    /\ UNCHANGED outsideEditor

\* lines 453-455
onAddNewGlossary ==
    /\ location = "editor"
    /\ Len(glossary) < MaxGlossary
    /\ glossary' = Append(glossary, GlossaryItem("key", ""))
    /\ lastEditorEvent' = EditorEvent("addGlossary", "")
    /\ UNCHANGED <<connection, location, unsavedChanges, showCancelAlert,
                   editFields, pendingUpdate>>
    /\ UNCHANGED outsideEditor

\* lines 457-466; i counts from 0
glossaryChangeHandler(name, value, i) ==
    /\ location = "editor"
    /\ i < Len(glossary)
    /\ glossary' = [glossary EXCEPT ![i + 1][name] = value]
    /\ unsavedChanges' = TRUE
    /\ lastEditorEvent' = EditorEvent("changeGlossary", "")
    /\ UNCHANGED <<connection, location, showCancelAlert, editFields,
                   pendingUpdate>>
    /\ UNCHANGED outsideEditor

\* lines 468-472; index counts from 0
removeGlossaryData(index) ==
    /\ location = "editor"
    /\ index < Len(glossary)
    /\ glossary' = SubSeq(glossary, 1, index)
                     \o SubSeq(glossary, index + 2, Len(glossary))
    /\ lastEditorEvent' = EditorEvent("removeGlossary", "")
    /\ UNCHANGED <<connection, location, unsavedChanges, showCancelAlert,
                   editFields, pendingUpdate>>
    /\ UNCHANGED outsideEditor

\* the ways back: the close icon, the Cancel button, the Escape key
BackWays == {"close", "cancel", "escape"}

\* as handleBack, without the test of unsavedChanges
handleBackAlwaysNavigates(way) ==
    /\ location = "editor"
    /\ Unmount("home")
    /\ lastEditorEvent' = EditorEvent("back", way)
    /\ UNCHANGED <<connection, pendingUpdate>>
    /\ UNCHANGED outsideEditor

\* lines 701-707 (Escape: 710-725)
handleBack(way) ==
    /\ location = "editor"
    /\ IF unsavedChanges
       THEN /\ showCancelAlert' = TRUE
            /\ UNCHANGED <<location, unsavedChanges, editFields, glossary>>
       ELSE Unmount("home")
    /\ lastEditorEvent' = EditorEvent("back", way)
    /\ UNCHANGED <<connection, pendingUpdate>>
    /\ UNCHANGED outsideEditor

\* lines 799-802: OK in the discard dialog
CancelAlertOnSuccess ==
    /\ location = "editor"
    /\ showCancelAlert
    /\ Unmount("previous")
    /\ lastEditorEvent' = EditorEvent("confirm", "")
    /\ UNCHANGED <<connection, pendingUpdate>>
    /\ UNCHANGED outsideEditor

\* lines 803-805: Cancel in the discard dialog
CancelAlertOnCancel ==
    /\ location = "editor"
    /\ showCancelAlert
    /\ showCancelAlert' = FALSE
    /\ lastEditorEvent' = EditorEvent("dismiss", "")
    /\ UNCHANGED <<connection, location, unsavedChanges, editFields,
                   glossary, pendingUpdate>>
    /\ UNCHANGED outsideEditor

\* lines 765-788; the Save button is disabled while an update is pending
handleSubmit ==
    /\ location = "editor"
    /\ pendingUpdate = NoUpdate
    /\ IF ~unsavedChanges
       THEN /\ Unmount("home")
            /\ lastEditorEvent' = EditorEvent("save", "notSent")
            /\ UNCHANGED pendingUpdate
       ELSE /\ pendingUpdate' =
                  [pending |-> TRUE,
                   name |-> editFields.name,
                   glossary |-> ConvertToKeyValueObject(glossary)]
            /\ lastEditorEvent' = EditorEvent("save", "sent")
            /\ UNCHANGED <<location, unsavedChanges, showCancelAlert,
                           editFields, glossary>>
    /\ UNCHANGED connection
    /\ UNCHANGED outsideEditor

\* lines 639-645: the update succeeded
UpdateConnectionOnSuccess ==
    /\ pendingUpdate # NoUpdate
    /\ connection' = [name |-> pendingUpdate.name,
                      glossary |-> pendingUpdate.glossary]
    /\ pendingUpdate' = NoUpdate
    /\ Unmount("home")
    /\ lastEditorEvent' = EditorEvent("updated", "")
    /\ UNCHANGED outsideEditor

\* the update failed: the form stays as it is
UpdateConnectionFails ==
    /\ pendingUpdate # NoUpdate
    /\ pendingUpdate' = NoUpdate
    /\ lastEditorEvent' = EditorEvent("updateFailed", "")
    /\ UNCHANGED <<connection, location, unsavedChanges, showCancelAlert,
                   editFields, glossary>>
    /\ UNCHANGED outsideEditor

InitEditor ==
    /\ ComposerIdle
    /\ ParseIdle
    /\ StorageIdle
    /\ ConversationsIdle
    /\ SchemaIdle
    /\ connection \in
           {[name |-> "a", glossary |-> g] :
               g \in {<<>>, <<GlossaryItem("k", "")>>}}
    /\ location = "editor"
    /\ unsavedChanges = FALSE
    /\ showCancelAlert = FALSE
    /\ editFields = [name |-> connection.name]
    /\ glossary = NewGlsry(connection.glossary)
    /\ pendingUpdate = NoUpdate
    /\ lastEditorEvent = EditorEvent("open", "")

NextEditor ==
    \/ OpenEditor
    \/ \E value \in ConnectionNames : ChangeName(value)
    \/ onAddNewGlossary
    \/ \E i \in 0..(MaxGlossary - 1) :
           \/ \E value \in GlossaryKeys : glossaryChangeHandler("key", value, i)
           \/ \E value \in GlossaryValues :
                  glossaryChangeHandler("value", value, i)
    \/ \E index \in 0..(MaxGlossary - 1) : removeGlossaryData(index)
    \/ \E way \in BackWays : handleBack(way)
    \/ CancelAlertOnSuccess
    \/ CancelAlertOnCancel
    \/ handleSubmit
    \/ UpdateConnectionOnSuccess
    \/ UpdateConnectionFails

SpecEditor == InitEditor /\ [][NextEditor]_editorVars

----------------------------------------------------------------------------
(* SchemaEditor (part_001): the columns of one table, edited through       *)
(* columnFieldChangeHandler by the user and by the possible-values and     *)
(* relationships requests.  A handler works on the options of the render   *)
(* that created it: a user event meets the handler of the current render,  *)
(* the continuation of a request the handler of the render that started    *)
(* the request.                                                            *)

MaxRequests == 2

\* column_index of the columns of the table
Columns == {1, 2}
Descriptions == {"", "d"}
\* what a request returns in result.data when it is an array
ResultArrays == {<<"x">>}
\* a response without an array, or a rejected request
NoData == <<"no data">>
RequestNames == {"possible_values", "relationship"}

SchemaEvent(op, name, column_index, value) ==
    [op |-> op, name |-> name, column_index |-> column_index,
     value |-> value]

\* lines 44-59, relation_index = -1: the options handed to setOptions by the
\* handler of a render whose options are closureOptions
ColumnFieldChange(closureOptions, value, name, column_index) ==
    IF column_index \in DOMAIN closureOptions
    THEN [closureOptions EXCEPT ![column_index][name] = value]
    ELSE closureOptions

\* lines 273-276: the user edits the description of a column
columnFieldChangeHandler(value, column_index) ==
    /\ options' = ColumnFieldChange(options, value, "description",
                                    column_index)
    /\ lastSchemaEvent' =
           SchemaEvent("edit", "description", column_index, <<value>>)
    /\ UNCHANGED <<requests, loadingPossibleValuesMap,
                   loadingRelationshipsMap, started>>
    /\ UNCHANGED outsideSchema

Request(name, column_index, closureOptions) ==
    [name |-> name, column_index |-> column_index,
     options |-> closureOptions]

\* lines 72-75 up to the await; the button is disabled while the column's
\* possible values are loading (line 311)
updatePossibleValues(column_index) ==
    /\ ~loadingPossibleValuesMap[column_index]
    /\ started < MaxRequests
    /\ started' = started + 1
    /\ Request("possible_values", column_index, options) \notin requests
    /\ loadingPossibleValuesMap' =
           [loadingPossibleValuesMap EXCEPT ![column_index] = TRUE]
    /\ requests' =
           requests \cup {Request("possible_values", column_index, options)}
    /\ lastSchemaEvent' =
           SchemaEvent("request", "possible_values", column_index, <<>>)
    /\ UNCHANGED <<options, loadingRelationshipsMap>>
    /\ UNCHANGED outsideSchema

\* lines 85-88 up to the await; the button is never disabled (line 354)
updateRelationships(column_index) ==
    /\ started < MaxRequests
    /\ started' = started + 1
    /\ Request("relationship", column_index, options) \notin requests
    /\ loadingRelationshipsMap' =
           [loadingRelationshipsMap EXCEPT ![column_index] = TRUE]
    /\ requests' =
           requests \cup {Request("relationship", column_index, options)}
    /\ lastSchemaEvent' =
           SchemaEvent("request", "relationship", column_index, <<>>)
    /\ UNCHANGED <<options, loadingPossibleValuesMap>>
    /\ UNCHANGED outsideSchema

\* lines 76-82 and 89-95: the request ends; its continuation calls the
\* columnFieldChangeHandler of the render that started it
RequestEnds(request, result) ==
    /\ request \in requests
    /\ requests' = requests \ {request}
    /\ UNCHANGED started
    /\ IF result # NoData
       THEN /\ options' = ColumnFieldChange(request.options, result,
                                            request.name,
                                            request.column_index)
            /\ lastSchemaEvent' =
                   SchemaEvent("resolved", request.name,
                               request.column_index, result)
       ELSE /\ UNCHANGED options
            /\ lastSchemaEvent' =
                   SchemaEvent("noData", request.name,
                               request.column_index, <<>>)
    /\ IF request.name = "possible_values"
       THEN /\ loadingPossibleValuesMap' =
                   [loadingPossibleValuesMap EXCEPT
                       ![request.column_index] = FALSE]
            /\ UNCHANGED loadingRelationshipsMap
       ELSE /\ loadingRelationshipsMap' =
                   [loadingRelationshipsMap EXCEPT
                       ![request.column_index] = FALSE]
            /\ UNCHANGED loadingPossibleValuesMap
    /\ UNCHANGED outsideSchema

InitSchema ==
    /\ ComposerIdle
    /\ ParseIdle
    /\ StorageIdle
    /\ ConversationsIdle
    /\ EditorIdle
    /\ options \in
           {[c \in Columns |->
                [description |-> d, possible_values |-> <<>>,
                 relationship |-> <<>>]] : d \in Descriptions}
    /\ requests = {}
    /\ loadingPossibleValuesMap = [c \in Columns |-> FALSE]
    /\ loadingRelationshipsMap = [c \in Columns |-> FALSE]
    /\ started = 0
    /\ lastSchemaEvent = SchemaEvent("init", "", 0, <<>>)

NextSchema ==
    \/ \E value \in Descriptions : \E column_index \in Columns :
           columnFieldChangeHandler(value, column_index)
    \/ \E column_index \in Columns : updatePossibleValues(column_index)
    \/ \E column_index \in Columns : updateRelationships(column_index)
    \/ \E request \in requests : \E result \in ResultArrays \cup {NoData} :
           RequestEnds(request, result)

SpecSchema == InitSchema /\ [][NextSchema]_schemaVars

----------------------------------------------------------------------------
(* The vocabulary of the properties *)

\* the length of the maximal run of word characters that ends at offset pos
RECURSIVE WordRunLength(_, _)
WordRunLength(text, pos) ==
    IF pos = 0 THEN 0
    ELSE IF IsWordChar(text[pos]) THEN 1 + WordRunLength(text, pos - 1)
    ELSE 0

\* the in-progress word at the cursor: that run when it has 3 characters or
\* more, and none otherwise
InProgressWord(text, pos) ==
    LET n == WordRunLength(text, pos)
    IN  IF n >= 3 THEN slice(text, pos - n, pos) ELSE NoMatch

\* the start of the in-progress word, the cursor itself when there is none
WordStart(text, pos) == pos - Len(InProgressWord(text, pos))

SameLetter(a, b) == toLowerCase(<<a>>) = toLowerCase(<<b>>)

\* key contains word as a substring, case-insensitively
ContainsIgnoringCase(key, word) ==
    \E i \in 0..(Len(key) - Len(word)) :
        \A j \in 1..Len(word) : SameLetter(key[i + j], word[j])

MatchingKeys(d, word) ==
    {k \in Elements(ObjectKeys(d)) : ContainsIgnoringCase(k, word)}

IndexIn(seq, x) == CHOOSE i \in 1..Len(seq) : seq[i] = x

\* the tags of a candidate in a dictionary, none when it is no key of it
TagsOf(d, c) ==
    UNION {d.entries[i].tags : i \in {n \in 1..Len(d.entries) : d.entries[n].key = c}}

Bracketed(c) == <<"[">> \o c \o <<"]">>
Angled(c) == <<"<">> \o c \o <<">">>

AfterChange == lastOp.op = "change"

\* a step in which an acceptance (Tab or click) ran the insertion
Accepts == lastOp'.op \in {"Tab", "click"} /\ ~lastOp'.threw
Accepted == lastOp.op \in {"Tab", "click"} /\ ~lastOp.threw

\* the text inserted by an accepting step, between the kept prefix and the
\* trailing space
Inserted ==
    slice(inputValue', WordStart(inputValue, selectionStart),
          Len(inputValue') - (Len(inputValue) - selectionEnd) - 1)

----------------------------------------------------------------------------
(* C1 *)

\* C1, as stated: in every reachable state with an in-progress word at the
\* cursor, the filtered candidate list is exactly the set of dictionary keys
\* that contain that word case-insensitively.
C1_FilteredAlwaysMatchesWord ==
    LET word == InProgressWord(inputValue, selectionStart)
    IN  word # NoMatch =>
            Elements(filteredSuggestions) = MatchingKeys(autoCompleteList, word)

\* C1, amended: a text change that leaves an in-progress word at the cursor
\* sets the filtered candidate list to exactly the dictionary keys that
\* contain the word case-insensitively; every other step (a text change
\* without an in-progress word, a key press, a hover, an acceptance, a
\* submit, a dictionary change, a caret move) leaves the list as it was.
C1_FilteredSetByChangeOnly ==
    [][LET word == InProgressWord(inputValue', selectionStart')
       IN  IF lastOp'.op = "change" /\ word # NoMatch
           THEN Elements(filteredSuggestions') =
                    MatchingKeys(autoCompleteList', word)
           ELSE filteredSuggestions' = filteredSuggestions]_vars

C1_Witness ==
    /\ AfterChange
    /\ InProgressWord(inputValue, selectionStart) # NoMatch
    /\ Len(filteredSuggestions) = 3
    /\ showSuggestions

----------------------------------------------------------------------------
(* C2 *)

\* C2: whenever the filtered candidate list is non-empty, the highlighted
\* index is one of its positions, 0 .. len(filtered) - 1.
C2_IndexInBounds ==
    Len(filteredSuggestions) > 0 =>
        selectedIndex \in 0..(Len(filteredSuggestions) - 1)

\* the last candidate of a list of three is highlighted
C2_Witness ==
    /\ showSuggestions
    /\ Len(filteredSuggestions) = 3
    /\ selectedIndex = 2
    /\ lastOp.op \in {"ArrowDown", "hover"}

----------------------------------------------------------------------------
(* C3 *)

\* C3: after a text change, the query is the maximal run of word characters
\* that ends at the cursor, and there is none when the run is shorter than 3.
C3_QueryIsMaximalRun ==
    AfterChange =>
        LET n == WordRunLength(inputValue, selectionStart)
        IN  IF n >= 3
            THEN /\ lastOp.arg = slice(inputValue, selectionStart - n, selectionStart)
                 /\ \A i \in 1..n : IsWordChar(lastOp.arg[i])
                 /\ selectionStart - n > 0 =>
                        ~IsWordChar(inputValue[selectionStart - n])
            ELSE lastOp.arg = NoMatch

\* a query of four characters that starts inside the text
C3_Witness ==
    /\ AfterChange
    /\ Len(lastOp.arg) = 4
    /\ selectionStart > 4

----------------------------------------------------------------------------
(* C4 *)

\* C4: the filtered candidate list computed on a text change with query q
\* holds exactly the keys of the dictionary whose lower-case form contains
\* lower-case q, each once, in the order in which the dictionary yields them.
C4_FilteredInDictionaryOrder ==
    AfterChange /\ lastOp.arg # NoMatch =>
        LET keys == ObjectKeys(autoCompleteList)
            f == filteredSuggestions
        IN  /\ \A k \in Elements(keys) :
                   k \in Elements(f) <=> ContainsIgnoringCase(k, lastOp.arg)
            /\ Elements(f) \subseteq Elements(keys)
            /\ \A i \in 1..Len(f) : \A j \in 1..Len(f) :
                   i < j => IndexIn(keys, f[i]) < IndexIn(keys, f[j])

\* two of the keys match, the later one of them not as a prefix and only
\* when case is ignored; the keys between and after them do not match
C4_Witness ==
    /\ AfterChange
    /\ autoCompleteList = DictOne
    /\ filteredSuggestions =
           <<<<"b","B","b">>, <<"B","B","B","B">>, <<"x","b","b","B">>>>

----------------------------------------------------------------------------
(* C5 *)

ShowCustomerId ==
    <<"s","h","o","w"," ","[","c","u","s","t","o","m","e","r","_","i","d","]"," ">>
WhatIsRevenue ==
    <<"w","h","a","t"," ","i","s"," ","<","r","e","v","e","n","u","e",">"," ">>

\* C5: accepting candidate c with the text t, the cursor at p and the
\* selection ending at e (e = p for a plain cursor) yields
\* t[0..s) + wrap(c) + one space + t[e..), where s is the start of the
\* in-progress word at p and wrap(c) is c, [c] or <c>; "show cus|" with
\* customer_id tagged uniqueKey gives "show [customer_id] " and
\* "what is rev|" with revenue tagged glossary gives "what is <revenue> ".
C5_AcceptReplacesWord ==
    [][Accepts =>
        LET t == inputValue
            s == WordStart(t, selectionStart)
            e == selectionEnd
            c == lastOp'.arg
            w == Inserted
        IN  /\ w \in {c, Bracketed(c), Angled(c)}
            /\ Len(inputValue') = s + Len(w) + 1 + (Len(t) - e)
            /\ slice(inputValue', 0, s) = slice(t, 0, s)
            /\ inputValue'[s + Len(w) + 1] = " "
            /\ substring(inputValue', s + Len(w) + 1) = substring(t, e)
            /\ (t = ShowCus /\ selectionStart = 8 /\ e = 8 /\ c = CustomerId
                  /\ TagsOf(autoCompleteList, c) = {"uniqueKey"})
                   => inputValue' = ShowCustomerId
            /\ (t = WhatIsRev /\ selectionStart = 11 /\ e = 11 /\ c = Revenue
                  /\ TagsOf(autoCompleteList, c) = {"glossary"})
                   => inputValue' = WhatIsRevenue]_vars

C5_Witness ==
    /\ Accepted
    /\ lastOp.arg = CustomerId
    /\ inputValue = ShowCustomerId

----------------------------------------------------------------------------
(* C6 *)

\* C6: the wrapper of an accepted candidate depends on its tags alone:
\* [c] when they contain "uniqueKey" (with or without "glossary"), else <c>
\* when they contain "glossary", else c itself.
C6_WrapperByTags ==
    [][Accepts =>
        LET c == lastOp'.arg
            tags == TagsOf(autoCompleteList, c)
        IN  Inserted = IF "uniqueKey" \in tags THEN Bracketed(c)
                       ELSE IF "glossary" \in tags THEN Angled(c)
                       ELSE c]_vars

\* a candidate tagged both uniqueKey and glossary was accepted
C6_Witness ==
    /\ Accepted
    /\ lastOp.arg = <<"x","b","b","B">>
    /\ TagsOf(autoCompleteList, lastOp.arg) = {"glossary", "uniqueKey"}
    /\ inputValue = <<"[","x","b","b","B","]"," ">>

----------------------------------------------------------------------------
(* C7 *)

\* C7: an acceptance hides the suggestion list, resets the highlighted
\* index to 0 and schedules the cursor for s + len(wrapped candidate) + 1,
\* the offset right after the inserted space; the placement that follows
\* the acceptance puts the cursor there.
C7_AcceptHidesAndPlacesCursor ==
    [][/\ Accepts =>
            LET s == WordStart(inputValue, selectionStart)
                newPos == timeouts'[Len(timeouts')]
            IN  /\ showSuggestions' = FALSE
                /\ selectedIndex' = 0
                /\ timeouts' = Append(timeouts, newPos)
                /\ newPos = s + Len(Inserted) + 1
                /\ inputValue'[newPos] = " "
                /\ newPos = Len(inputValue') - (Len(inputValue) - selectionEnd)
       /\ (Accepted /\ Len(timeouts) = 1 /\ lastOp'.op = "timeout") =>
            /\ selectionStart' = timeouts[1]
            /\ selectionEnd' = timeouts[1]
            /\ inputValue'[selectionStart'] = " "]_vars

\* an acceptance in front of text that is kept: the cursor is scheduled for
\* the offset after the space, not for the end of the text
C7_Witness ==
    /\ Accepted
    /\ Len(timeouts) = 1
    /\ timeouts[1] < Len(inputValue)
    /\ ~showSuggestions
    /\ selectedIndex = 0

----------------------------------------------------------------------------
(* C8 *)

\* C8: while suggestions are shown, ArrowDown moves the highlighted index
\* from i to i + 1 and leaves it at the last index, ArrowUp moves it from i
\* to i - 1 and leaves it at 0; neither wraps around, and neither changes
\* the text, the filtered list or the visibility of the list.
C8_ArrowsClamp ==
    [][/\ lastOp'.op = "ArrowDown" =>
            /\ SuggestionsActive
            /\ selectedIndex' =
                   IF selectedIndex = Len(filteredSuggestions) - 1
                   THEN selectedIndex ELSE selectedIndex + 1
            /\ selectedIndex' <= Len(filteredSuggestions) - 1
            /\ UNCHANGED <<inputValue, filteredSuggestions, showSuggestions>>
       /\ lastOp'.op = "ArrowUp" =>
            /\ SuggestionsActive
            /\ selectedIndex' =
                   IF selectedIndex = 0 THEN 0 ELSE selectedIndex - 1
            /\ selectedIndex' >= 0
            /\ UNCHANGED <<inputValue, filteredSuggestions, showSuggestions>>]_vars

\* ArrowDown was pressed at the last index of a list of three
C8_Witness ==
    /\ lastOp.op = "ArrowDown"
    /\ lastOp.arg = <<2>>
    /\ selectedIndex = 2
    /\ Len(filteredSuggestions) = 3

----------------------------------------------------------------------------
(* C9 *)

\* C9: after a text change the suggestion list is shown exactly when the run
\* of word characters before the cursor has 3 characters or more and some
\* key of the dictionary matches it; when it is shown the highlighted index
\* is 0.
C9_ShownIffWordMatches ==
    AfterChange =>
        LET word == InProgressWord(inputValue, selectionStart)
        IN  /\ showSuggestions =
                   (/\ WordRunLength(inputValue, selectionStart) >= 3
                    /\ MatchingKeys(autoCompleteList, word) # {})
            /\ showSuggestions => selectedIndex = 0

\* a word of 3 characters or more that no key of a non-empty dictionary
\* matches: the list is hidden
C9_Witness ==
    /\ AfterChange
    /\ lastOp.arg # NoMatch
    /\ ObjectKeys(autoCompleteList) # <<>>
    /\ ~showSuggestions

----------------------------------------------------------------------------
(* C10 *)

\* C10: while suggestions are shown, Tab hands the candidate at the
\* highlighted index of the filtered list to the insertion, which puts that
\* candidate, wrapped, in place of the in-progress word.
C10_TabAcceptsHighlighted ==
    [][lastOp'.op = "Tab" =>
        LET c == filteredSuggestions[selectedIndex + 1]
        IN  /\ SuggestionsActive
            /\ lastOp'.arg = c
            /\ ~lastOp'.threw =>
                   /\ Inserted \in {c, Bracketed(c), Angled(c)}
                   /\ ~showSuggestions']_vars

\* Tab accepted the third candidate of the list
C10_Witness ==
    /\ lastOp.op = "Tab"
    /\ ~lastOp.threw
    /\ Len(filteredSuggestions) = 3
    /\ lastOp.arg = filteredSuggestions[3]

----------------------------------------------------------------------------
(* C11 *)

\* C11: while suggestions are shown, Escape hides the suggestion list and
\* leaves the text and the cursor (both ends of the selection) as they were.
C11_EscapeHidesOnly ==
    [][lastOp'.op = "Escape" =>
        /\ SuggestionsActive
        /\ showSuggestions' = FALSE
        /\ inputValue' = inputValue
        /\ selectionStart' = selectionStart
        /\ selectionEnd' = selectionEnd]_vars

\* Escape was pressed on a list shown for a word in a longer text
C11_Witness ==
    /\ lastOp.op = "Escape"
    /\ ~showSuggestions
    /\ inputValue = ShowCus
    /\ selectionStart = 8
    /\ filteredSuggestions = <<CustomerId>>

----------------------------------------------------------------------------
(* C12 *)

\* C12: with no suggestion list shown, Enter without Shift hands the current
\* text to onSubmit (recorded as the argument of the step) and empties the
\* text when the composer is enabled and the text is non-empty; when the
\* composer is disabled or the text is empty nothing is handed over and the
\* text stays.  Enter with Shift hands nothing over and keeps the text.
C12_EnterSubmits ==
    [][/\ (lastOp'.op = "Enter" /\ ~showSuggestions) =>
            IF ~disabled /\ inputValue # <<>>
            THEN /\ lastOp'.arg = inputValue
                 /\ inputValue' = <<>>
            ELSE /\ lastOp'.arg = <<>>
                 /\ inputValue' = inputValue
       /\ lastOp'.op = "ShiftEnter" =>
            /\ lastOp'.arg = <<>>
            /\ inputValue' = inputValue]_vars

\* a text without a word of three characters, so with no list shown, was
\* submitted
C12_Witness ==
    /\ lastOp.op = "Enter"
    /\ lastOp.arg = <<"B", " ", "B">>
    /\ inputValue = <<>>
    /\ ~disabled

----------------------------------------------------------------------------
(* C13 *)

\* C13: a click on a candidate is a step that Tab's acceptance of that
\* candidate, taken from the same state, would make as well: it is the
\* insertion of the clicked candidate and so sets the text, the visibility,
\* the highlighted index, the caret and the deferred caret placement exactly
\* as the insertion Tab starts for the highlighted candidate.  Hovering
\* over a candidate sets the highlighted index to that candidate's position
\* and keeps the text, the list, its visibility and the caret.
C13_ClickAsTabHoverHighlights ==
    [][/\ lastOp'.op = "click" =>
            /\ SuggestionsActive
            /\ lastOp'.arg \in Elements(filteredSuggestions)
            /\ lastOp'.arg = filteredSuggestions[selectedIndex + 1] =>
                   InsertSuggestionAtCaret("click",
                       filteredSuggestions[selectedIndex + 1])
            /\ InsertSuggestionAtCaret("click", lastOp'.arg)
       /\ lastOp'.op = "hover" =>
            /\ SuggestionsActive
            /\ lastOp'.arg[1] \in 0..(Len(filteredSuggestions) - 1)
            /\ selectedIndex' = lastOp'.arg[1]
            /\ UNCHANGED <<inputValue, filteredSuggestions, showSuggestions,
                           selectionStart, selectionEnd>>]_vars

\* the second of two candidates was hovered over and then clicked
C13_Witness ==
    /\ lastOp.op = "click"
    /\ ~lastOp.threw
    /\ Len(filteredSuggestions) > 1
    /\ lastOp.arg = filteredSuggestions[2]
    /\ ~showSuggestions

----------------------------------------------------------------------------
(* C14 *)

\* C14: while the dictionary is absent (null or undefined), no operation of
\* the composer raises an error, and a text change offers no candidate.
C14_NoErrorWithoutDictionary ==
    ~autoCompleteList.present =>
        /\ ~lastOp.threw
        /\ AfterChange => ~showSuggestions

----------------------------------------------------------------------------
(* C15 *)

\* a submit that went through: Enter handed a non-empty text to onSubmit
Submitted == lastOp.op = "Enter" /\ lastOp.arg # <<>>

\* C15: after a successful submit the text is empty, the suggestion list is
\* hidden, the filtered candidate list is empty and the highlighted index is
\* reset to 0.
C15_SubmitDiscardsAll ==
    Submitted =>
        /\ inputValue = <<>>
        /\ ~showSuggestions
        /\ filteredSuggestions = <<>>
        /\ selectedIndex = 0

\* C15, amended: a successful submit empties the text and hides the
\* suggestion list, and leaves the filtered candidate list and the
\* highlighted index as they were.  What it leaves is not observable in the
\* next input session: a hidden list becomes shown only by a text change,
\* which sets the candidates to the matches of the word then at the cursor
\* and the highlighted index to 0.
C15_SubmitEmptiesAndHides ==
    [][/\ (lastOp'.op = "Enter" /\ lastOp'.arg # <<>>) =>
            /\ inputValue' = <<>>
            /\ ~showSuggestions'
            /\ filteredSuggestions' = filteredSuggestions
            /\ selectedIndex' = selectedIndex
       /\ (~showSuggestions /\ showSuggestions') =>
            /\ lastOp'.op = "change"
            /\ selectedIndex' = 0
            /\ Elements(filteredSuggestions') =
                   MatchingKeys(autoCompleteList',
                                InProgressWord(inputValue', selectionStart'))
            /\ filteredSuggestions' # <<>>]_vars

\* a submit went through with the second of several candidates highlighted
C15_Witness ==
    /\ Submitted
    /\ inputValue = <<>>
    /\ Len(filteredSuggestions) > 1
    /\ selectedIndex = 1

----------------------------------------------------------------------------
(* C16 *)

\* the text a part stands for: a plain segment itself, a chip with its
\* brackets put back
PartSource(part) ==
    IF part.kind = "glossary" THEN Angled(part.text)
    ELSE IF part.kind = "uniqueKey" THEN Bracketed(part.text)
    ELSE part.text

RECURSIVE Unparse(_)
Unparse(ps) ==
    IF ps = <<>> THEN <<>> ELSE PartSource(Head(ps)) \o Unparse(Tail(ps))

\* the offset in the message text at which part i starts
PartOffset(ps, i) == Len(Unparse(SubSeq(ps, 1, i - 1)))

\* a <...> or [...] token starts at offset k: an opening bracket, at least
\* one character that is not its closing bracket, then the closing bracket
TokenStartsAt(text, k) ==
    \E pair \in {<<"<", ">">>, <<"[", "]">>} :
        /\ text[k + 1] = pair[1]
        /\ \E j \in (k + 3)..Len(text) :
               /\ text[j] = pair[2]
               /\ \A l \in (k + 2)..(j - 1) : text[l] # pair[2]

\* C16: the parts returned for a message text are, in the order of the text,
\* its plain runs and its tokens, and together they are the whole text (no
\* overlap, nothing lost): no part is empty, a glossary chip holds the inside
\* of a <...> token and a unique-key chip the inside of a [...] token, two
\* plain segments are never adjacent and no token starts inside a plain
\* segment; a chip's text is plain text, never a chip.  The text "refund for
\* <customer> and [order_id]" yields plain "refund for ", glossary chip
\* "customer", plain " and ", unique-key chip "order_id".
C16_PartsPartitionText ==
    parsePc = "done" =>
        /\ Unparse(parts) = content
        /\ \A i \in 1..Len(parts) :
               /\ parts[i].kind \in {"plain", "glossary", "uniqueKey"}
               /\ parts[i].text # <<>>
               /\ parts[i].kind = "glossary" =>
                      ">" \notin Elements(parts[i].text)
               /\ parts[i].kind = "uniqueKey" =>
                      "]" \notin Elements(parts[i].text)
               /\ parts[i].kind = "plain" =>
                      /\ i < Len(parts) => parts[i + 1].kind # "plain"
                      /\ \A k \in 0..(Len(parts[i].text) - 1) :
                             ~TokenStartsAt(content, PartOffset(parts, i) + k)
        /\ content = RefundExample =>
               parts = << Plain(<<"r","e","f","u","n","d"," ","f","o","r"," ">>),
                          Chip("glossary", <<"c","u","s","t","o","m","e","r">>),
                          Plain(<<" ","a","n","d"," ">>),
                          Chip("uniqueKey", <<"o","r","d","e","r","_","i","d">>) >>

\* a text with a glossary token that holds brackets of the other kind, next
\* to a unique-key token, was rendered
C16_Witness ==
    /\ parsePc = "done"
    /\ content = <<"<", "[", ">", "[", "a", "]">>
    /\ Len(parts) = 2

----------------------------------------------------------------------------
(* C17 - C20: the stored message options *)

\* the stored preference map, empty when the item is not set
StoredMap(store) ==
    IF store[MESSAGE_OPTIONS_KEY].present
    THEN store[MESSAGE_OPTIONS_KEY].value ELSE <<>>

MarkerSet(store) == store[MIGRATION_KEY_V1].present

\* a step that is a read for a connection / a write
ReadsConnection ==
    lastCall'.fn = "read" /\ lastCall'.connection_id \in Connections
Writes == lastCall'.fn = "save"

\* C17: a read for a connection while the migration marker is absent writes
\* the stored preference map back with secure_data false in every entry and
\* everything else as it was, sets the marker, and returns the migrated
\* entry of the requested connection when it has one; for the stored map
\* {conn1: {secure_data: true, debug: false}} the read for conn1 returns
\* {secure_data: false, debug: false}.
C17_FirstReadMigrates ==
    [][(ReadsConnection /\ ~MarkerSet(localStorage)) =>
        LET old == StoredMap(localStorage)
            new == StoredMap(localStorage')
            c == lastCall'.connection_id
        IN  /\ localStorage'[MESSAGE_OPTIONS_KEY].present
            /\ DOMAIN new = DOMAIN old
            /\ \A k \in DOMAIN old :
                   /\ new[k].secure_data = FALSE
                   /\ new[k].debug = old[k].debug
            /\ localStorage'[MIGRATION_KEY_V1] = Item("true")
            /\ lastCall'.migrated
            /\ c \in DOMAIN old => lastCall'.returned = new[c]
            /\ (c = "conn1" /\ DOMAIN old = {"conn1"}
                  /\ old["conn1"] = [secure_data |-> TRUE, debug |-> FALSE])
                   => lastCall'.returned =
                          [secure_data |-> FALSE, debug |-> FALSE]]_storageVars

\* the read for conn1 migrated a map of two entries
C17_Witness ==
    /\ lastCall.fn = "read"
    /\ lastCall.migrated
    /\ lastCall.connection_id = "conn1"
    /\ lastCall.returned = [secure_data |-> FALSE, debug |-> FALSE]
    /\ DOMAIN StoredMap(localStorage) = Connections
    /\ MarkerSet(localStorage)

\* C18: the forced overwrite runs at most once: the marker, once set, stays
\* set, a read runs the overwrite only while the marker is absent, and with
\* the marker set a read changes neither the stored map nor the marker; two
\* consecutive reads of the same connection return the same value.
C18_MigrationRunsOnce ==
    [][/\ MarkerSet(localStorage) =>
              localStorage'[MIGRATION_KEY_V1] = localStorage[MIGRATION_KEY_V1]
       /\ (lastCall'.fn = "read" /\ lastCall'.migrated) =>
              ~MarkerSet(localStorage)
       /\ (lastCall'.fn = "read" /\ MarkerSet(localStorage)) =>
              localStorage' = localStorage
       /\ (lastCall.fn = "read" /\ lastCall'.fn = "read"
             /\ lastCall'.connection_id = lastCall.connection_id) =>
              lastCall'.returned = lastCall.returned]_storageVars

\* after the migration a write set secure_data, and a read returned it
C18_Witness ==
    /\ lastCall.fn = "read"
    /\ ~lastCall.migrated
    /\ MarkerSet(localStorage)
    /\ lastCall.connection_id = "conn1"
    /\ lastCall.returned.secure_data
    /\ "conn1" \in DOMAIN StoredMap(localStorage)

\* C19: a write of partial changes for connection c leaves the stored
\* record of c equal to its previous record, or to the default record when
\* c had none, with exactly the changed fields overridden; the records of
\* all other connections and the migration marker are unchanged.
C19_WriteMergesChanges ==
    [][Writes =>
        LET old == StoredMap(localStorage)
            new == StoredMap(localStorage')
            c == lastCall'.connection_id
            changes == lastCall'.changes
            base == IF c \in DOMAIN old THEN old[c] ELSE DEFAULT_OPTIONS
        IN  /\ localStorage'[MESSAGE_OPTIONS_KEY].present
            /\ DOMAIN new = DOMAIN old \cup {c}
            /\ DOMAIN new[c] = Fields
            /\ \A f \in Fields :
                   new[c][f] = IF f \in DOMAIN changes THEN changes[f]
                               ELSE base[f]
            /\ \A k \in DOMAIN old \ {c} : new[k] = old[k]
            /\ localStorage'[MIGRATION_KEY_V1] =
                   localStorage[MIGRATION_KEY_V1]]_storageVars

\* a write of one field for a connection next to another connection's
\* record, which differs from it in the other field
C19_Witness ==
    /\ lastCall.fn = "save"
    /\ lastCall.connection_id = "conn2"
    /\ DOMAIN lastCall.changes = {"secure_data"}
    /\ DOMAIN StoredMap(localStorage) = Connections
    /\ StoredMap(localStorage)["conn2"].debug # DEFAULT_OPTIONS.debug
    /\ StoredMap(localStorage)["conn1"] # StoredMap(localStorage)["conn2"]

\* C20: a read for a connection that has no stored entry, or with no
\* connection id, returns the default record, with the marker present or
\* absent, and creates no entry: the connections of the stored map stay the
\* same.
C20_ReadWithoutEntryGivesDefault ==
    [][(/\ lastCall'.fn = "read"
        /\ lastCall'.connection_id \notin DOMAIN StoredMap(localStorage)) =>
           /\ lastCall'.returned = DEFAULT_OPTIONS
           /\ DOMAIN StoredMap(localStorage') =
                  DOMAIN StoredMap(localStorage)]_storageVars

\* a read that ran the migration for a connection without an entry, next to
\* a stored entry of another connection, and returned a default record
\* with secure_data set
C20_Witness ==
    /\ lastCall.fn = "read"
    /\ lastCall.migrated
    /\ lastCall.connection_id = "conn2"
    /\ DOMAIN StoredMap(localStorage) = {"conn1"}
    /\ lastCall.returned = DEFAULT_OPTIONS
    /\ DEFAULT_OPTIONS.secure_data

----------------------------------------------------------------------------
(* C21 - C23, C27: the conversation lists *)

\* the place of a conversation on the backend is among the places the
\* pages of the paginated cache stand for; this holds of every
\* conversation a delete removes from the paginated cache, as a place on
\* the backend only moves towards the front and the pages never get fewer
InFetchedRange(id) ==
    /\ infiniteData.defined
    /\ \E i \in 1..Len(backend) :
           backend[i] = id /\ i <= Len(infiniteData.pages) * Limit

----------------------------------------------------------------------------
(* C22 *)

\* a list with every occurrence of an id taken out, the rest in order
RECURSIVE Without(_, _)
Without(list, id) ==
    IF list = <<>> THEN <<>>
    ELSE IF Head(list) = id THEN Without(Tail(list), id)
    ELSE <<Head(list)>> \o Without(Tail(list), id)

----------------------------------------------------------------------------
(* C23 *)

RECURSIVE Flatten(_)
Flatten(pages) ==
    IF pages = <<>> THEN <<>> ELSE Head(pages) \o Flatten(Tail(pages))

\* C23: the offset requested for a next page is the number of conversations
\* in all the pages fetched so far, and a next page is requested only while
\* the last fetched page holds limit conversations or more.
C23_NextOffsetIsTotalFetched ==
    [][lastEvent'.op = "fetchNextPage" =>
        LET pages == infiniteData.pages
        IN  /\ lastEvent'.arg = Len(Flatten(pages))
            /\ infiniteData'.pageParams =
                   Append(infiniteData.pageParams, Len(Flatten(pages)))
            /\ Len(pages[Len(pages)]) >= Limit]_conversationVars

\* a next page was requested at an offset that is not a multiple of full
\* pages, an earlier page having lost a conversation
C23_Witness ==
    /\ lastEvent.op = "fetchNextPage"
    /\ Len(infiniteData.pages) = 3
    /\ lastEvent.arg = 1
    /\ Len(Flatten(infiniteData.pages)) = 2

----------------------------------------------------------------------------
(* C27 *)

\* C27: with the optimistic deletes, the paginated list still reaches every
\* remaining conversation: while the backend holds a conversation that is
\* not being deleted and that no fetched page holds, a further page can be
\* requested; and no conversation is in the pages twice.
C27_PaginationReachesAll ==
    (infiniteData.defined /\ infiniteData.pages # <<>>) =>
        /\ (\E id \in Elements(backend) : ~IsDeleting(id) /\ ~InPages(id))
               => HasNextPage(infiniteData)
        /\ LET all == Flatten(infiniteData.pages)
           IN  \A i, j \in 1..Len(all) : all[i] = all[j] => i = j


----------------------------------------------------------------------------
(* C25 *)

\* C25: a read of connection c that directly follows a write of changes for
\* c returns a record that holds those changes, whether or not the
\* migration has run.
C25_ReadAfterWrite ==
    [][(/\ lastCall.fn = "save"
        /\ lastCall'.fn = "read"
        /\ lastCall'.connection_id = lastCall.connection_id) =>
           \A f \in DOMAIN lastCall.changes :
               lastCall'.returned[f] = lastCall.changes[f]]_storageVars


----------------------------------------------------------------------------
(* C29 *)

\* C29: Enter without Shift while the suggestion list is shown never
\* inserts the highlighted candidate: the step is no acceptance and leaves
\* the text as it was or empty; when the composer is enabled (the text is
\* non-empty whenever a list is shown) it hands the text as it is to
\* onSubmit, empties it and hides the list; when the composer is disabled
\* it changes nothing.
C29_EnterOnListSubmits ==
    [][(lastOp'.op = "Enter" /\ SuggestionsActive) =>
        /\ ~lastOp'.threw
        /\ inputValue # <<>>
        /\ timeouts' = timeouts
        /\ IF ~disabled
           THEN /\ lastOp'.arg = inputValue
                /\ inputValue' = <<>>
                /\ ~showSuggestions'
           ELSE /\ lastOp'.arg = <<>>
                /\ UNCHANGED <<inputValue, showSuggestions, selectedIndex,
                               selectionStart, selectionEnd>>]_vars

\* a word with several candidates, the second one highlighted, was
\* submitted as typed
C29_Witness ==
    /\ lastOp.op = "Enter"
    /\ lastOp.arg = <<"B", "B", "B">>
    /\ ~disabled
    /\ Len(filteredSuggestions) > 1
    /\ selectedIndex = 1
    /\ inputValue = <<>>
    /\ ~showSuggestions

----------------------------------------------------------------------------
(* C30 *)

----------------------------------------------------------------------------
(* C24, C28: the connection editor *)

\* C24: going back from the editor by the close icon, the Cancel button or
\* the Escape key leaves the page at once only when there are no unsaved
\* changes; with unsaved changes it opens the discard dialog and stays, the
\* dialog opens in no other way, dismissing it stays on the page, and the
\* page is left for the previous one only by confirming in the open dialog.
C24_BackAsksBeforeDiscarding ==
    [][/\ lastEditorEvent'.op = "back" =>
              IF unsavedChanges
              THEN /\ showCancelAlert'
                   /\ location' = "editor"
                   /\ UNCHANGED <<editFields, glossary, unsavedChanges>>
              ELSE location' = "home"
       /\ (showCancelAlert' /\ ~showCancelAlert) =>
              /\ lastEditorEvent'.op = "back"
              /\ lastEditorEvent'.arg \in BackWays
              /\ unsavedChanges
       /\ lastEditorEvent'.op = "dismiss" =>
              /\ location' = "editor"
              /\ ~showCancelAlert'
       /\ (location' = "previous" /\ location # "previous") =>
              /\ lastEditorEvent'.op = "confirm"
              /\ showCancelAlert]_editorVars

\* the discard was confirmed and the page left
C24_Witness ==
    /\ lastEditorEvent = EditorEvent("confirm", "")
    /\ location = "previous"
    /\ ~showCancelAlert

\* C28: every edit of the form (the name, a glossary field, adding a
\* glossary row, removing a glossary row) leaves unsavedChanges set.
C28_EveryEditMarksUnsaved ==
    [][lastEditorEvent'.op \in {"changeName", "changeGlossary",
                                "addGlossary", "removeGlossary"} =>
          unsavedChanges']_editorVars


----------------------------------------------------------------------------
(* C26: the schema editor *)

\* C26: when a possible-values or relationships request for a column ends
\* with a result, the options after it are the options before it with only
\* that field of that column replaced by the result, so edits made and
\* results written while the request was in flight are still there.
C26_ResultUpdatesOnlyItsField ==
    [][lastSchemaEvent'.op = "resolved" =>
          options' = [options EXCEPT
                         ![lastSchemaEvent'.column_index]
                          [lastSchemaEvent'.name] = lastSchemaEvent'.value]
      ]_schemaVars

====
